---- MODULE Spec2Model ----
(***************************************************************************)
(* Model of the meatlaunch attribution service:                            *)
(*   api/start-signup.js     the signup intake (creates PENDING records)   *)
(*   api/recurly-webhook.js  the payment webhook handler and the           *)
(*                           subscription webhook handler (variant v2)     *)
(*   unnamed/part_000        the subscription webhook handler (variant v3) *)
(* Every await on the store or on the provider is one atomic step of a     *)
(* delivery; deliveries interleave freely between their steps.             *)
(***************************************************************************)
EXTENDS Integers, Sequences, FiniteSets, TLC

\* ------------------------------------------------------------------ bounds
NumDeliveries == 2
MaxAttempts == 2
MaxTicks == 2

Deliveries == 1..NumDeliveries

\* ------------------------------------------------------- values and inputs
\* JS null / undefined / "" of a string-typed field: the code tests such
\* fields by truthiness only (x || null), so the three are one value here.
NULL == "null"

\* An email is the sequence of its characters; the falsy email (null,
\* undefined or "") is the empty sequence.
NoEmail == << >>
EmailA == <<"u", "@", "x">>
EmailARaw == <<" ", "U", "@", "X", " ">>
Emails == {EmailA, EmailARaw}

Truthy(v) == v # NULL
TruthyEmail(e) == e # NoEmail

\* a || b on string-typed values, and on emails
Or(a, b) == IF Truthy(a) THEN a ELSE b
OrEmail(a, b) == IF TruthyEmail(a) THEN a ELSE b

\* Date.now() counts milliseconds
SecondMs == 1000
\* 6 * 60 * 60 * 1000 ms
WindowMs == 6 * 60 * 60 * SecondMs
\* how far the clock may move between two steps
TickSteps == {SecondMs, WindowMs}

\* bodies of webhook POSTs (short JSON payloads)
NoPayload ==
  [uuid |-> NULL, object_type |-> NULL, id |-> NULL, event_type |-> NULL,
   type |-> NULL, event_id |-> NULL]
Payment(uuid, id, eventType) ==
  [NoPayload EXCEPT !.uuid = uuid, !.object_type = "payment", !.id = id,
                    !.event_type = eventType]
Payloads ==
  { Payment("e1", "p1", "succeeded"),
    Payment("e2", "p2", "succeeded"),
    Payment(NULL, "p1", "succeeded"),
    Payment("e1", "p1", "failed"),
    [NoPayload EXCEPT !.object_type = "subscription", !.event_type = "succeeded"] }

\* requests the payment webhook endpoint may receive; a request whose body
\* does not parse carries no payload
Requests ==
  { [method |-> m, bodyOk |-> FALSE, payload |-> NoPayload, debug_uuid |-> NULL] :
       m \in {"GET", "HEAD", "OPTIONS", "PUT", "POST"} }
  \cup { [method |-> "POST", bodyOk |-> TRUE, payload |-> p, debug_uuid |-> NULL] :
          p \in Payloads }

\* bodies of subscription webhook POSTs
SubPayloads ==
  { [NoPayload EXCEPT !.uuid = "s1", !.object_type = "subscription", !.id = "ev1",
                      !.event_type = "renewed"],
    [NoPayload EXCEPT !.uuid = "s2", !.event_id = "ev2", !.type = "created"],
    [NoPayload EXCEPT !.id = "ev3", !.event_type = "expired"] }

\* requests the subscription webhook endpoint may receive
SubRequests ==
  { [method |-> m, bodyOk |-> FALSE, payload |-> NoPayload, debug_uuid |-> NULL] :
       m \in {"GET", "HEAD", "OPTIONS", "POST"} }
  \cup { [method |-> "GET", bodyOk |-> FALSE, payload |-> NoPayload, debug_uuid |-> "s1"] }
  \cup { [method |-> "POST", bodyOk |-> TRUE, payload |-> p, debug_uuid |-> NULL] :
          p \in SubPayloads }

\* subscription resources the provider may return
NoSub ==
  [uuid |-> NULL, plan_code |-> NULL, state |-> NULL, status |-> NULL,
   current_period_ends_at |-> NULL, current_term_ends_at |-> NULL,
   account_email |-> NoEmail, account_bill_to_email |-> NoEmail,
   account_code |-> NULL]
Subs ==
  { [NoSub EXCEPT !.uuid = "s1", !.plan_code = "planA", !.state = "active",
                  !.current_period_ends_at = "2027-01-01", !.account_email = EmailA,
                  !.account_code = "acc1"],
    [NoSub EXCEPT !.plan_code = "planB", !.status = "canceled",
                  !.current_term_ends_at = "2027-02-01",
                  !.account_bill_to_email = EmailARaw],
    [NoSub EXCEPT !.uuid = "s1", !.state = "active", !.account_email = EmailA,
                  !.account_code = "acc1"],
    [NoSub EXCEPT !.uuid = "s2", !.plan_code = "planA", !.account_code = "acc2"] }

\* table shops (read only): plan code -> shop id
Shops == { [id |-> "shop1", plan_code |-> "planA"] }

\* transaction resources the provider may return in data[0]
NoTxn ==
  [id |-> NULL, account_email |-> NoEmail, account_billing_email |-> NoEmail,
   billing_email |-> NoEmail, invoice_id |-> NULL, subscription_id |-> NULL,
   invoice_subscription_id |-> NULL, amount |-> NULL, currency |-> NULL]
Txns ==
  { [NoTxn EXCEPT !.id = "t1", !.account_email = EmailA, !.invoice_id = "i1",
                  !.subscription_id = "s1", !.amount = "49", !.currency = "USD"],
    [NoTxn EXCEPT !.billing_email = EmailA, !.invoice_subscription_id = "s2",
                  !.amount = "0"],
    [NoTxn EXCEPT !.id = "t3", !.account_billing_email = EmailARaw],
    NoTxn }

\* HTTP statuses the provider may answer with
ProviderStatuses == {200, 401, 403, 404, 500}

VARIABLES
  now,              \* wall clock, ms
  ticks,            \* number of clock moves so far
  env,              \* process environment: which configuration is present
  signup_attempts,  \* table signup_attempts: sequence of rows, id = index
  webhook_events,   \* table webhook_events: sequence of audit rows
  subscriptions,    \* table subscriptions: set of rows
  pc,               \* per delivery: where its handler stands
  req,              \* per delivery: the request it serves
  loc,              \* per delivery: the payment handler's local variables
  sloc,             \* per delivery: the subscription handler's local variables
  resp,             \* per delivery: the response sent
  trace,            \* per delivery: its store and provider operations, in order
  writes,           \* history: the successful mark-PAID updates
  failed,           \* history: the mark-PAID updates the store refused
  signupRes         \* the intake's last request and the status it was answered with

vars == <<now, ticks, env, signup_attempts, webhook_events, subscriptions,
          pc, req, loc, sloc, resp, trace, writes, failed, signupRes>>

NoLoc ==
  [eventUuid |-> NULL, paymentId |-> NULL, email |-> NoEmail, invoiceId |-> NULL,
   transactionId |-> NULL, subscriptionId |-> NULL, amount |-> NULL,
   currency |-> NULL, cutoff |-> 0, attempt |-> 0,
   \* history: a row was PAID with this delivery's event uuid when it started
   paidAtStart |-> FALSE, failedAtStart |-> FALSE]
NoSloc ==
  [provider_subscription_id |-> NULL, plan_code |-> NULL, status |-> NULL,
   current_period_end |-> NULL, email |-> NoEmail, account_code |-> NULL,
   shop_id |-> NULL]
NoResp == [status |-> 0, body |-> ""]
\* req.body || {}: an intake request without a body
NoBody == [shopId |-> NULL, employeeCode |-> NULL, email |-> NoEmail]
NoReq ==
  [handler |-> "none", method |-> "", bodyOk |-> FALSE, payload |-> NoPayload,
   debug_uuid |-> NULL]

Init ==
  /\ now = 0
  /\ ticks = 0
  /\ env \in [recurlyApiKey : BOOLEAN, supabase : BOOLEAN]
  /\ signup_attempts = << >>
  /\ webhook_events = << >>
  /\ subscriptions = {}
  /\ pc = [d \in Deliveries |-> "idle"]
  /\ req = [d \in Deliveries |-> NoReq]
  /\ loc = [d \in Deliveries |-> NoLoc]
  /\ sloc = [d \in Deliveries |-> NoSloc]
  /\ resp = [d \in Deliveries |-> NoResp]
  /\ trace = [d \in Deliveries |-> << >>]
  /\ writes = {}
  /\ failed = {}
  /\ signupRes = [status |-> 0, method |-> NULL, body |-> NoBody]

\* an entry of a delivery's trace
Op(op, lookup, auth, status) ==
  [op |-> op, lookup |-> lookup, auth |-> auth, status |-> status]

\* res.status(s).send(b) and return: the delivery ends and its locals are gone;
\* of request r the method and whether the body parsed stay on record beside
\* the response and the trace
Respond(d, r, s, b, tr) ==
  /\ resp' = [resp EXCEPT ![d] = [status |-> s, body |-> b]]
  /\ trace' = [trace EXCEPT ![d] = Append(tr, Op("respond", "", "", s))]
  /\ pc' = [pc EXCEPT ![d] = "done"]
  /\ req' = [req EXCEPT ![d] = [r EXCEPT !.payload = NoPayload]]
  /\ loc' = [loc EXCEPT ![d] = NoLoc]
  /\ sloc' = [sloc EXCEPT ![d] = NoSloc]

\* the payment handler goes on to step p with locals l
PayGoto(d, r, p, l, tr) ==
  /\ pc' = [pc EXCEPT ![d] = p]
  /\ req' = [req EXCEPT ![d] = r]
  /\ loc' = [loc EXCEPT ![d] = l]
  /\ trace' = [trace EXCEPT ![d] = tr]
  /\ UNCHANGED <<resp, sloc>>

\* deliveries are interchangeable: they start in index order
MayStart(d) == pc[d] = "idle" /\ (IF d = 1 THEN TRUE ELSE pc[d - 1] # "idle")

Tick ==
  /\ ticks < MaxTicks
  /\ \E s \in TickSteps : now' = now + s
  /\ ticks' = ticks + 1
  /\ UNCHANGED <<env, signup_attempts, webhook_events, subscriptions,
                 pc, req, loc, sloc, resp, trace, writes, failed, signupRes>>

\* -------------------------------------------------------------- the store
NoTime == 0 - 1

\* the insert with status PAID
NewAttemptPaid(shopId, employeeCode, email, t) ==
  [shop_id |-> shopId, employee_code |-> employeeCode, email |-> email,
   status |-> "PAID", created_at |-> t, completed_at |-> NoTime,
   recurly_event_id |-> NULL, recurly_invoice_id |-> NULL,
   recurly_transaction_id |-> NULL, recurly_subscription_id |-> NULL,
   amount |-> NULL, currency |-> NULL]

\* a row of signup_attempts as the intake inserts it (created_at is the
\* column default, the time of the insert)
NewAttempt(shopId, employeeCode, email, t) ==
  [shop_id |-> shopId, employee_code |-> employeeCode, email |-> email,
   status |-> "PENDING", created_at |-> t, completed_at |-> NoTime,
   recurly_event_id |-> NULL, recurly_invoice_id |-> NULL,
   recurly_transaction_id |-> NULL, recurly_subscription_id |-> NULL,
   amount |-> NULL, currency |-> NULL]

Ids == DOMAIN signup_attempts

\* .eq("recurly_event_id", eventUuid)
RowsWithEvent(e) == {i \in Ids : signup_attempts[i].recurly_event_id = e}

\* the refused updates that carried event uuid e
FailedWith(e) == {f \in failed : f.event = e}

\* the rows marked PAID by a delivery of event e
PaidWith(e) ==
  {i \in Ids : signup_attempts[i].status = "PAID" /\ signup_attempts[i].recurly_event_id = e}

\* .maybeSingle(): the row when exactly one row matches; no row (data null)
\* when none matches, and an error with data null when several match
MaybeSingle(rows) == IF Cardinality(rows) = 1 THEN rows ELSE {}

\* new Date(Date.now() - 6 * 60 * 60 * 1000)
Cutoff(t) == t - WindowMs

\* the filter with .gt in place of .gte
EligibleAfterCutoff(email, cutoff) ==
  {i \in Ids : /\ signup_attempts[i].email = email
               /\ signup_attempts[i].status = "PENDING"
               /\ signup_attempts[i].created_at > cutoff}

\* the filter without .eq("email", email)
EligibleAnyEmail(email, cutoff) ==
  {i \in Ids : /\ signup_attempts[i].status = "PENDING"
               /\ signup_attempts[i].created_at >= cutoff}

\* .eq("email", email).eq("status", "PENDING").gte("created_at", cutoff)
Eligible(email, cutoff) ==
  {i \in Ids : /\ signup_attempts[i].email = email
               /\ signup_attempts[i].status = "PENDING"
               /\ signup_attempts[i].created_at >= cutoff}

\* the order with ascending: true
Oldest(rows) ==
  {i \in rows : \A j \in rows : signup_attempts[j].created_at >= signup_attempts[i].created_at}

\* .order("created_at", { ascending: false }).limit(1): the rows that may
\* come first (rows of equal created_at come in either order)
MostRecent(rows) ==
  {i \in rows : \A j \in rows : signup_attempts[j].created_at <= signup_attempts[i].created_at}

\* ------------------------------------------------------ the signup intake
SignupBodies ==
  { [shopId |-> "shop1", employeeCode |-> "emp1", email |-> e] : e \in Emails }
  \cup { NoBody,
         [shopId |-> NULL, employeeCode |-> "emp1", email |-> EmailA],
         [shopId |-> "shop1", employeeCode |-> NULL, email |-> EmailA],
         [shopId |-> "shop1", employeeCode |-> "emp1", email |-> NoEmail] }

\* the check without the email
MissingFieldsNoEmail(b) ==
  ~Truthy(b.shopId) \/ ~Truthy(b.employeeCode)

\* !shopId || !employeeCode || !email
MissingFields(b) ==
  ~Truthy(b.shopId) \/ ~Truthy(b.employeeCode) \/ ~TruthyEmail(b.email)

\* start-signup.js, both variants: variant 2 answers GET before the method check.
\* The module creates its store client when it loads (createClient on the
\* environment): without the store configuration no request reaches the handler.
\* res.status(s): the answer, kept with the request it answers
SignupAnswer(s, method, b) ==
  signupRes' = [status |-> s, method |-> method, body |-> b]

StartSignup(variant, method, b, insertFails) ==
  /\ env.supabase
  /\ IF variant = 2 /\ method = "GET"
       THEN SignupAnswer(200, method, b) /\ UNCHANGED signup_attempts
     ELSE IF method # "POST"
       THEN SignupAnswer(405, method, b) /\ UNCHANGED signup_attempts
     ELSE IF MissingFields(b)
       THEN SignupAnswer(400, method, b) /\ UNCHANGED signup_attempts
     ELSE IF insertFails
       THEN SignupAnswer(500, method, b) /\ UNCHANGED signup_attempts
     ELSE /\ Len(signup_attempts) < MaxAttempts
          /\ signup_attempts' =
               Append(signup_attempts, NewAttempt(b.shopId, b.employeeCode, b.email, now))
          /\ SignupAnswer(200, method, b)
  /\ UNCHANGED <<now, ticks, env, webhook_events, subscriptions,
                 pc, req, loc, sloc, resp, trace, writes, failed>>

\* any request to the intake
Signup ==
  \E variant \in {1, 2}, method \in {"POST", "GET", "PUT"}, b \in SignupBodies,
     insertFails \in BOOLEAN :
    StartSignup(variant, method, b, insertFails)

\* a complete POST whose insert succeeds (the only intake request that
\* changes the store)
SignupOk ==
  \E variant \in {1, 2}, b \in SignupBodies :
    /\ ~MissingFields(b)
    /\ StartSignup(variant, "POST", b, FALSE)

\* ------------------------------------------------- the payment handler
\* objectType !== "payment" || eventType !== "succeeded" || !paymentId
Ignored(p) ==
  p.object_type # "payment" \/ p.event_type # "succeeded" \/ ~Truthy(p.id)

\* the dedupe block entered for every payload
DedupeAlways(eventUuid) == TRUE

\* if (eventUuid)
DedupeApplies(eventUuid) == Truthy(eventUuid)

\* the filter rejecting an event that is not of interest
PayFilterReject(d, r, l, tr) ==
  IF Ignored(r.payload)
    THEN Respond(d, r, 400, "ok (ignored)", tr)
    ELSE PayGoto(d, r, "fetch", l, tr)

\* after the dedupe block: the of-interest filter
PayFilter(d, r, l, tr) ==
  IF Ignored(r.payload)
    THEN Respond(d, r, 200, "ok (ignored)", tr)
    ELSE PayGoto(d, r, "fetch", l, tr)

\* method dispatch, body parse, payload fields; as for the intake, the store
\* client is created when the module loads
PayReceive(d) ==
  /\ MayStart(d)
  /\ env.supabase
  /\ \E rq \in Requests :
       LET r == [NoReq EXCEPT !.handler = "payment", !.method = rq.method,
                               !.bodyOk = rq.bodyOk, !.payload = rq.payload]
           l == [NoLoc EXCEPT !.eventUuid = r.payload.uuid, !.paymentId = r.payload.id,
                              !.paidAtStart = PaidWith(r.payload.uuid) # {},
                              !.failedAtStart = FailedWith(r.payload.uuid) # {}]
       IN IF r.method = "OPTIONS"
            THEN Respond(d, r, 200, "", trace[d])
          ELSE IF r.method = "GET"
            THEN Respond(d, r, 200, "OK (GET)", trace[d])
          ELSE IF r.method # "POST"
            THEN Respond(d, r, 405, "Method Not Allowed", trace[d])
          ELSE IF ~r.bodyOk
            THEN Respond(d, r, 400, "invalid json", trace[d])
          ELSE IF DedupeApplies(l.eventUuid)
            THEN PayGoto(d, r, "dedupe", l, trace[d])
          ELSE PayFilter(d, r, l, trace[d])
  /\ UNCHANGED <<now, ticks, env, signup_attempts, webhook_events, subscriptions,
                 writes, failed, signupRes>>

\* the dedupe lookup on recurly_event_id
PayDedupe(d) ==
  /\ pc[d] = "dedupe"
  /\ \E lookupErr \in BOOLEAN :
       LET existing == IF lookupErr THEN {} ELSE MaybeSingle(RowsWithEvent(loc[d].eventUuid))
           tr == Append(trace[d], Op("dedupe", "", "", 0))
       IN IF existing # {}
            THEN Respond(d, req[d], 200, "ok (duplicate)", tr)
            ELSE PayFilter(d, req[d], loc[d], tr)
  /\ UNCHANGED <<now, ticks, env, signup_attempts, webhook_events, subscriptions,
                 writes, failed, signupRes>>

\* what the provider may answer to one GET
TxnAnswers ==
  { [status |-> s, found |-> FALSE, txn |-> NoTxn] : s \in ProviderStatuses }
  \cup { [status |-> 200, found |-> TRUE, txn |-> t] : t \in Txns }

\* the attribution fields taken from the transaction
Extract(l, t) ==
  [l EXCEPT
     !.email = OrEmail(t.account_email, OrEmail(t.account_billing_email, t.billing_email)),
     !.invoiceId = t.invoice_id,
     !.transactionId = Or(t.id, l.paymentId),
     !.subscriptionId = Or(t.subscription_id, t.invoice_subscription_id),
     !.amount = t.amount,
     !.currency = t.currency]

\* recurlyFetch(/transactions?uuid=...) and the extraction of the attribution fields
PayFetch(d) ==
  /\ pc[d] = "fetch"
  /\ IF ~env.recurlyApiKey
       THEN Respond(d, req[d], 200, "ok (payment fetch failed)", trace[d])
       ELSE \E a \in TxnAnswers :
         LET tr == Append(trace[d], Op("fetch", "transactions?uuid", "basic", a.status))
             l == Extract(loc[d], a.txn)
         IN IF a.status # 200 \/ ~a.found
              THEN Respond(d, req[d], 200, "ok (payment fetch failed)", tr)
            ELSE IF ~TruthyEmail(l.email)
              THEN Respond(d, req[d], 200, "ok (no email)", tr)
            ELSE PayGoto(d, req[d], "lookup", l, tr)
  /\ UNCHANGED <<now, ticks, env, signup_attempts, webhook_events, subscriptions,
                 writes, failed, signupRes>>

\* the attempt lookup: most recent PENDING row for the email in the window
PayLookup(d) ==
  /\ pc[d] = "lookup"
  /\ \E lookupErr \in BOOLEAN :
       LET cutoff == Cutoff(now)
           rows == Eligible(loc[d].email, cutoff)
           tr == Append(trace[d], Op("select", "", "", 0))
       IN IF lookupErr
            THEN Respond(d, req[d], 200, "ok (attempt lookup failed)", tr)
          ELSE IF rows = {}
            THEN Respond(d, req[d], 200, "ok (no matching attempt)", tr)
          ELSE \E i \in MostRecent(rows) :
                 PayGoto(d, req[d], "update",
                         [loc[d] EXCEPT !.cutoff = cutoff, !.attempt = i], tr)
  /\ UNCHANGED <<now, ticks, env, signup_attempts, webhook_events, subscriptions,
                 writes, failed, signupRes>>

\* .update({...}).eq("id", attempt.id)
MarkPaid(row, l, t) ==
  [row EXCEPT !.status = "PAID", !.completed_at = t,
              !.recurly_event_id = l.eventUuid,
              !.recurly_invoice_id = l.invoiceId,
              !.recurly_transaction_id = l.transactionId,
              !.recurly_subscription_id = l.subscriptionId,
              !.amount = l.amount, !.currency = l.currency]

\* the update error answered as a server error
UpdateFailedAs500(d, tr) == Respond(d, req[d], 500, "ok (update failed)", tr)

\* if (updErr) return res.status(200).send("ok (update failed)")
UpdateFailed(d, tr) == Respond(d, req[d], 200, "ok (update failed)", tr)

PayUpdate(d) ==
  /\ pc[d] = "update"
  /\ \E updErr \in BOOLEAN :
       LET id == loc[d].attempt
           tr == Append(trace[d], Op("update", "", "", 0))
       IN IF updErr
            THEN /\ UpdateFailed(d, tr)
                 /\ failed' = failed \cup {[d |-> d, id |-> id, event |-> loc[d].eventUuid]}
                 /\ UNCHANGED <<signup_attempts, writes>>
            ELSE /\ signup_attempts' =
                      [signup_attempts EXCEPT ![id] = MarkPaid(signup_attempts[id], loc[d], now)]
                 /\ writes' = writes \cup
                      {[d |-> d, id |-> id, event |-> loc[d].eventUuid,
                        email |-> loc[d].email, cutoff |-> loc[d].cutoff,
                        from |-> signup_attempts[id].status,
                        retry |-> loc[d].failedAtStart]}
                 /\ UNCHANGED failed
                 /\ Respond(d, req[d], 200, "ok", tr)
  /\ UNCHANGED <<now, ticks, env, webhook_events, subscriptions, signupRes>>

PayNext ==
  \E d \in Deliveries :
    \/ PayReceive(d)
    \/ PayDedupe(d)
    \/ PayFetch(d)
    \/ PayLookup(d)
    \/ PayUpdate(d)

\* ------------------------------------------ the subscription handlers
\* the subscription handler goes on to step p with locals l
SubGoto(d, r, p, l, tr) ==
  /\ pc' = [pc EXCEPT ![d] = p]
  /\ req' = [req EXCEPT ![d] = r]
  /\ sloc' = [sloc EXCEPT ![d] = l]
  /\ trace' = [trace EXCEPT ![d] = tr]
  /\ UNCHANGED <<resp, loc>>

\* the alive answer of a variant
Alive(handler) == IF handler = "sub_v2" THEN "ok-v2" ELSE "ok-v3"

\* method dispatch, environment check, req.body
SubReceive(d) ==
  /\ MayStart(d)
  /\ \E handler \in {"sub_v2", "sub_v3"}, rq \in SubRequests :
       LET r == [NoReq EXCEPT !.handler = handler, !.method = rq.method,
                               !.bodyOk = rq.bodyOk, !.debug_uuid = rq.debug_uuid,
                               \* a body that is no object is read as {}
                               !.payload = IF rq.bodyOk THEN rq.payload ELSE NoPayload]
       IN IF handler = "sub_v3" /\ r.method = "GET" /\ Truthy(r.debug_uuid)
            THEN SubGoto(d, r, "debug", NoSloc, trace[d])
          ELSE IF r.method = "GET" \/ r.method = "HEAD"
            THEN Respond(d, r, 200, Alive(handler), trace[d])
          ELSE IF r.method # "POST"
            THEN Respond(d, r, 200, Alive(handler), trace[d])
          ELSE IF ~env.supabase
            THEN Respond(d, r, 500, "Missing Supabase env vars", trace[d])
          ELSE SubGoto(d, r, "audit", NoSloc, trace[d])
  /\ UNCHANGED <<now, ticks, env, signup_attempts, webhook_events, subscriptions,
                 writes, failed, signupRes>>

\* what the provider may answer to GET /subscriptions/<uuid>
SubAnswers ==
  { [status |-> s, sub |-> NoSub] : s \in ProviderStatuses \ {200} }
  \cup { [status |-> 200, sub |-> x] : x \in Subs }

\* the debug endpoint of variant v3: fetch and show, no store access
SubDebug(d) ==
  /\ pc[d] = "debug"
  /\ IF ~env.recurlyApiKey
       THEN Respond(d, req[d], 200, "debug", trace[d])
       ELSE \E a \in SubAnswers :
              Respond(d, req[d], 200, "debug",
                      Append(trace[d], Op("fetch", "subscriptions/uuid", "basic", a.status)))
  /\ UNCHANGED <<now, ticks, env, signup_attempts, webhook_events, subscriptions,
                 writes, failed, signupRes>>

\* the row logged for a payload
AuditRow(p) ==
  [provider |-> "recurly",
   event_type |-> Or(Or(p.event_type, p.type), "unknown"),
   event_id |-> Or(p.id, p.event_id),
   payload |-> p]

\* the handler giving up when the audit insert fails
AuditStopsOnError(logErr) == logErr

\* if (logErr) console.error(...): the error is logged (v2) or not read (v3)
AuditStops(logErr) == FALSE

\* the insert into webhook_events, then the check of the subscription uuid;
\* the trace keeps the store's answer (500: error)
SubAudit(d) ==
  /\ pc[d] = "audit"
  /\ \E logErr \in BOOLEAN :
       LET tr == Append(trace[d], Op("audit", "", "", IF logErr THEN 500 ELSE 0))
       IN /\ webhook_events' =
               IF logErr THEN webhook_events
               ELSE Append(webhook_events, AuditRow(req[d].payload))
          /\ IF AuditStops(logErr) \/ ~Truthy(req[d].payload.uuid)
               THEN Respond(d, req[d], 200, "ok", tr)
               ELSE SubGoto(d, req[d], "fetch", sloc[d], tr)
  /\ UNCHANGED <<now, ticks, env, signup_attempts, subscriptions, writes, failed, signupRes>>

\* the fields read from the subscription resource
SubParse(x, subUuid) ==
  [provider_subscription_id |-> Or(x.uuid, subUuid),
   plan_code |-> x.plan_code,
   status |-> Or(x.state, x.status),
   current_period_end |-> Or(x.current_period_ends_at, x.current_term_ends_at),
   email |-> OrEmail(x.account_email, x.account_bill_to_email),
   account_code |-> x.account_code,
   shop_id |-> NULL]

\* the guard without the plan code
UpsertGuardNoPlan(l) ==
  Truthy(l.provider_subscription_id) /\ TruthyEmail(l.email)

\* provider_subscription_id && email && plan_code
UpsertGuard(l) ==
  Truthy(l.provider_subscription_id) /\ TruthyEmail(l.email) /\ Truthy(l.plan_code)

\* after the shop lookup: upsert or skip
SubGuard(d, l, tr) ==
  IF UpsertGuard(l)
    THEN SubGoto(d, req[d], "upsert", l, tr)
    ELSE Respond(d, req[d], 200, "ok", tr)

\* fetchRecurlySubscription and the parse; without a plan code there is no
\* shop lookup
SubFetch(d) ==
  /\ pc[d] = "fetch"
  /\ IF ~env.recurlyApiKey
       THEN Respond(d, req[d], 200, "ok", trace[d])
       ELSE \E a \in SubAnswers :
         LET tr == Append(trace[d], Op("fetch", "subscriptions/uuid", "basic", a.status))
             l == SubParse(a.sub, req[d].payload.uuid)
         IN IF a.status # 200
              THEN Respond(d, req[d], 200, "ok", tr)
            ELSE IF Truthy(l.plan_code)
              THEN SubGoto(d, req[d], "shop", l, tr)
            ELSE SubGuard(d, l, tr)
  /\ UNCHANGED <<now, ticks, env, signup_attempts, webhook_events, subscriptions,
                 writes, failed, signupRes>>

\* shops.select("id").eq("plan_code", plan_code).maybeSingle()
ShopId(plan_code) ==
  LET rows == {r \in Shops : r.plan_code = plan_code}
  IN IF Cardinality(rows) = 1 THEN (CHOOSE r \in rows : TRUE).id ELSE NULL

SubShop(d) ==
  /\ pc[d] = "shop"
  /\ \E shopErr \in BOOLEAN :
       LET id == IF shopErr THEN NULL ELSE ShopId(sloc[d].plan_code)
       IN SubGuard(d, [sloc[d] EXCEPT !.shop_id = id],
                   Append(trace[d], Op("shop", "", "", 0)))
  /\ UNCHANGED <<now, ticks, env, signup_attempts, webhook_events, subscriptions,
                 writes, failed, signupRes>>

\* the row upserted
SubRow(l, t) ==
  [provider |-> "recurly",
   provider_subscription_id |-> l.provider_subscription_id,
   account_code |-> l.account_code,
   email |-> l.email,
   plan_code |-> l.plan_code,
   shop_id |-> l.shop_id,
   status |-> Or(l.status, "active"),
   current_period_end |-> l.current_period_end,
   updated_at |-> t]

\* a plain insert in place of the upsert
InsertRow(rows, row) == rows \cup {row}

\* .upsert(row, { onConflict: "provider_subscription_id" })
Upsert(rows, row) ==
  {r \in rows : r.provider_subscription_id # row.provider_subscription_id} \cup {row}

SubUpsert(d) ==
  /\ pc[d] = "upsert"
  /\ \E upsertErr \in BOOLEAN :
       /\ subscriptions' =
            IF upsertErr THEN subscriptions
            ELSE Upsert(subscriptions, SubRow(sloc[d], now))
       /\ Respond(d, req[d], 200, "ok",
                  Append(trace[d], Op("upsert", "", "", IF upsertErr THEN 500 ELSE 0)))
  /\ UNCHANGED <<now, ticks, env, signup_attempts, webhook_events, writes, failed, signupRes>>

SubNext ==
  \E d \in Deliveries :
    \/ SubReceive(d)
    \/ SubDebug(d)
    \/ SubAudit(d)
    \/ SubFetch(d)
    \/ SubShop(d)
    \/ SubUpsert(d)

Next ==
  \/ Tick
  \/ SignupOk
  \/ PayNext

Spec == Init /\ [][Next]_vars

\* the subscription pipeline alone
NextSub ==
  \/ Tick
  \/ SubNext

SpecSub == Init /\ [][NextSub]_vars

\* the signup intake alone, under every request
NextIntake ==
  \/ Tick
  \/ Signup

SpecIntake == Init /\ [][NextIntake]_vars

\* ------------------------------------------------------------- properties
EventUuids == {"e1", "e2"}

\* the rows a successful update moved from PENDING to PAID because of event e
PaidBy(e) == {w.id : w \in {x \in writes : x.event = e /\ x.from = "PENDING"}}

\* C1: for every event uuid, whatever the interleaving of the deliveries that
\* carry it, at most one row in total goes from PENDING to PAID because of it.
C1_AtMostOnePaidPerEvent ==
  \A e \in EventUuids : Cardinality(PaidBy(e)) <= 1

\* C2: a row that has reached PAID is never written again: all its fields stay
\* as first written.
C2_PaidIsImmutable ==
  [][\A i \in Ids :
       signup_attempts[i].status = "PAID" => signup_attempts'[i] = signup_attempts[i]]_vars

\* C3: a POST is answered 4xx exactly when its body is not valid JSON; every
\* other POST is answered 200, whatever fails along the pipeline.
C3_Only4xxOnMalformedJson ==
  \A d \in Deliveries :
    (pc[d] = "done" /\ req[d].method = "POST") =>
      IF req[d].bodyOk
        THEN resp[d].status = 200
        ELSE resp[d].status >= 400 /\ resp[d].status <= 499

\* the PENDING rows of an email created no more than six hours before asOf
PendingInWindow(email, asOf) ==
  {i \in Ids : /\ signup_attempts[i].email = email
               /\ signup_attempts[i].status = "PENDING"
               /\ asOf - signup_attempts[i].created_at <= WindowMs}

\* C4: the match of a payment is a PENDING row of its email in the window with
\* the greatest created_at, and the successful update marks that row PAID and
\* leaves every other row as it was.
C4_MostRecentWins ==
  [][\A d \in Deliveries :
       /\ (pc[d] = "lookup" /\ pc'[d] = "update") =>
            /\ loc'[d].attempt \in PendingInWindow(loc[d].email, now)
            /\ \A j \in PendingInWindow(loc[d].email, now) :
                 signup_attempts[j].created_at
                   <= signup_attempts[loc'[d].attempt].created_at
       /\ (pc[d] = "update" /\ resp'[d].body = "ok") =>
            /\ signup_attempts'[loc[d].attempt].status = "PAID"
            /\ \A j \in Ids :
                 j # loc[d].attempt => signup_attempts'[j] = signup_attempts[j]]_vars

\* C4 happens: of two rows of one email, both in the window of the payment,
\* the later one is PAID and the earlier one still PENDING.
C4_Witness ==
  \E i, j \in Ids :
    /\ signup_attempts[i].email = signup_attempts[j].email
    /\ signup_attempts[i].created_at < signup_attempts[j].created_at
    /\ signup_attempts[j].status = "PAID"
    /\ signup_attempts[i].status = "PENDING"
    /\ signup_attempts[j].completed_at - signup_attempts[i].created_at <= WindowMs

\* C5: the window is closed at its lower bound. With asOf the time of the
\* lookup: a PENDING row of the email created at asOf - 6h makes the lookup
\* match (and is the match when no later row is eligible); a row created
\* before asOf - 6h, such as at asOf - 6h - 1s, is never the match; and no
\* update marks PAID a row created before the cutoff of its lookup.
C5_WindowClosedAtLowerBound ==
  [][\A d \in Deliveries :
       /\ (pc[d] = "lookup" /\ pc'[d] = "update") =>
            /\ signup_attempts[loc'[d].attempt].created_at >= now - WindowMs
            /\ loc'[d].cutoff = now - WindowMs
       /\ (pc[d] = "lookup" /\ resp'[d].body = "ok (no matching attempt)") =>
            ~\E i \in Ids : /\ signup_attempts[i].email = loc[d].email
                            /\ signup_attempts[i].status = "PENDING"
                            /\ signup_attempts[i].created_at = now - WindowMs
       /\ (pc[d] = "update" /\ resp'[d].body = "ok") =>
            signup_attempts[loc[d].attempt].created_at >= loc[d].cutoff]_vars

\* C5 happens: a row created exactly six hours before its lookup was marked
\* PAID while a row of the same email one second older than the window
\* stayed PENDING.
C5_Witness ==
  \E w \in writes : \E i \in Ids :
    /\ signup_attempts[w.id].created_at = w.cutoff
    /\ signup_attempts[i].email = w.email
    /\ signup_attempts[i].created_at = signup_attempts[w.id].created_at - SecondMs
    /\ signup_attempts[i].status = "PENDING"

\* trim and lower-case of an email
LowerChar(c) ==
  CASE c = "U" -> "u"
    [] c = "X" -> "x"
    [] OTHER -> c
Lower(e) == [i \in 1..Len(e) |-> LowerChar(e[i])]
RECURSIVE TrimLeft(_)
TrimLeft(e) == IF e # << >> /\ Head(e) = " " THEN TrimLeft(Tail(e)) ELSE e
RECURSIVE TrimRight(_)
TrimRight(e) ==
  IF e # << >> /\ e[Len(e)] = " " THEN TrimRight(SubSeq(e, 1, Len(e) - 1)) ELSE e
Normalize(e) == Lower(TrimRight(TrimLeft(e)))

\* C6: matching is insensitive to case and surrounding whitespace: a lookup
\* that does not fail finds a match whenever a PENDING row in the window has
\* an email equal to the payment's after trim and lower-case.
C6_MatchUpToNormalization ==
  [][\A d \in Deliveries :
       (pc[d] = "lookup" /\ resp'[d].body = "ok (no matching attempt)") =>
         ~\E i \in Ids : /\ Normalize(signup_attempts[i].email) = Normalize(loc[d].email)
                         /\ signup_attempts[i].status = "PENDING"
                         /\ signup_attempts[i].created_at >= now - WindowMs]_vars

\* the provider requests of a delivery, in order
Fetches(d) == SelectSeq(trace[d], LAMBDA o : o.op = "fetch")

\* C7: in the provider requests of one finished delivery, a 401/403 answer to
\* a lookup made with the primary (basic) scheme is followed by the same
\* lookup with the alternate (bearer) scheme, and a 404 answer is followed by
\* another lookup strategy.
C7_ResolverFallbackOrder ==
  \A d \in Deliveries :
    pc[d] = "done" =>
      \A i \in DOMAIN Fetches(d) :
        LET f == Fetches(d)
        IN /\ (f[i].auth = "basic" /\ f[i].status \in {401, 403}) =>
                /\ i < Len(f)
                /\ f[i + 1].lookup = f[i].lookup
                /\ f[i + 1].auth = "bearer"
           /\ f[i].status = 404 =>
                /\ i < Len(f)
                /\ f[i + 1].lookup # f[i].lookup

\* C8: the upsert into subscriptions runs only with a subscription id, an
\* email and a plan code that are all non-empty; otherwise no row of
\* subscriptions is inserted or changed.
C8_NoPartialIdentityUpsert ==
  [][/\ \A d \in Deliveries :
          pc'[d] = "upsert" =>
            /\ sloc'[d].provider_subscription_id # NULL
            /\ sloc'[d].email # NoEmail
            /\ sloc'[d].plan_code # NULL
     /\ subscriptions' # subscriptions =>
          \E d \in Deliveries :
            /\ pc[d] = "upsert"
            /\ sloc[d].provider_subscription_id # NULL
            /\ sloc[d].email # NoEmail
            /\ sloc[d].plan_code # NULL
            /\ subscriptions' = Upsert(subscriptions, SubRow(sloc[d], now))
     /\ \A r \in subscriptions' :
          r.provider_subscription_id # NULL /\ r.email # NoEmail /\ r.plan_code # NULL]_vars

\* the ops of a finished delivery's trace
OpsOf(d) == {trace[d][i].op : i \in DOMAIN trace[d]}

\* C8 happens: one delivery has upserted a row and another one, whose
\* subscription was fetched, has skipped the upsert.
C8_Witness ==
  /\ subscriptions # {}
  /\ \E d \in Deliveries :
       /\ pc[d] = "done"
       /\ \E i \in DOMAIN trace[d] : trace[d][i].op = "fetch" /\ trace[d][i].status = 200
       /\ "upsert" \notin OpsOf(d)

\* C9: a GET, HEAD or OPTIONS request is answered 200 and touches no table.
C9_AliveOnGetHeadOptions ==
  \A d \in Deliveries :
    (pc[d] = "done" /\ req[d].method \in {"GET", "HEAD", "OPTIONS"}) =>
      /\ resp[d].status = 200
      /\ OpsOf(d) \subseteq {"fetch", "respond"}

\* C10: for a POST with a valid JSON body, an insert into webhook_events is
\* attempted before the dedupe check, before any provider fetch and before
\* the acknowledgement.
C10_AuditBeforeProcessing ==
  \A d \in Deliveries :
    (req[d].method = "POST" /\ req[d].bodyOk) =>
      \A i \in DOMAIN trace[d] :
        trace[d][i].op \in {"dedupe", "fetch", "respond"} =>
          \E j \in 1..(i - 1) : trace[d][j].op = "audit"

\* C11: a delivery that starts once a row is PAID with its event uuid is
\* answered 'ok (duplicate)' at its first step, makes no provider request and
\* changes no row.
C11_RedeliveryIsDuplicate ==
  [][\A d \in Deliveries :
       (loc[d].paidAtStart /\ loc[d].eventUuid # NULL /\ pc'[d] # pc[d]) =>
         /\ resp'[d].body = "ok (duplicate)"
         /\ signup_attempts' = signup_attempts
         /\ \A i \in DOMAIN trace'[d] : trace'[d][i].op # "fetch"]_vars

\* C12: a POST whose payload carries no event uuid skips the dedupe lookup
\* and is never answered as a duplicate: from the parse it goes to the
\* of-interest filter and on to the provider fetch, and 'ok (duplicate)' is
\* only ever the answer of a dedupe lookup made for a payload with a uuid.
C12_NoUuidNeverDuplicate ==
  [][\A d \in Deliveries :
       /\ (/\ pc[d] = "idle" /\ pc'[d] \notin {"idle", "done"}
           /\ req'[d].handler = "payment"
           /\ req'[d].payload.uuid = NULL) =>
            /\ pc'[d] = "fetch"
            /\ ~Ignored(req'[d].payload)
       /\ (/\ req[d].handler = "payment" /\ pc[d] \notin {"idle", "done"}
           /\ req[d].payload.uuid = NULL) =>
            /\ pc[d] # "dedupe"
            /\ resp'[d].body # "ok (duplicate)"
            /\ \A i \in DOMAIN trace'[d] : trace'[d][i].op # "dedupe"
       /\ (resp'[d].body = "ok (duplicate)" /\ resp[d].body # "ok (duplicate)") =>
            /\ pc[d] = "dedupe"
            /\ req[d].payload.uuid # NULL]_vars

\* C12 happens: a delivery without event uuid has gone through the resolver
\* and the matcher and marked a row PAID, with no dedupe lookup.
C12_Witness ==
  \E w \in writes :
    /\ w.event = NULL
    /\ \A i \in DOMAIN trace[w.d] : trace[w.d][i].op # "dedupe"

\* the answers of the payment handler on the paths that stop before the update
NoWriteBodies ==
  {"ok (duplicate)", "ok (ignored)", "ok (payment fetch failed)", "ok (no email)",
   "ok (attempt lookup failed)", "ok (no matching attempt)"}

\* C13: a payment delivery that ends as duplicate, ignored, payment fetch
\* failed, no email, attempt lookup failed or no matching attempt is answered
\* 200, has sent no update and leaves every signup_attempts record unchanged;
\* an existing record only ever changes in the step of a delivery that is at
\* the mark-PAID update and ends 'ok'.
C13_WritesOnlyOnUpdatePath ==
  [][/\ \A d \in Deliveries :
          (pc[d] # "done" /\ pc'[d] = "done" /\ resp'[d].body \in NoWriteBodies) =>
            /\ resp'[d].status = 200
            /\ signup_attempts' = signup_attempts
            /\ \A i \in DOMAIN trace'[d] : trace'[d][i].op # "update"
     /\ (\E i \in DOMAIN signup_attempts : signup_attempts'[i] # signup_attempts[i]) =>
          \E d \in Deliveries :
            /\ pc[d] = "update" /\ pc'[d] = "done" /\ resp'[d].body = "ok"
            /\ \A i \in DOMAIN signup_attempts :
                 i # loc[d].attempt => signup_attempts'[i] = signup_attempts[i]
     /\ \A d \in Deliveries :
          (pc[d] \in {"idle", "dedupe", "fetch", "lookup"} /\ pc'[d] # pc[d]) =>
            \A i \in DOMAIN signup_attempts : signup_attempts'[i] = signup_attempts[i]]_vars

\* C13 happens: while the store holds a PENDING record, one delivery has ended
\* with no matching attempt and one as ignored.
C13_Witness ==
  /\ \E i \in DOMAIN signup_attempts : signup_attempts[i].status = "PENDING"
  /\ \E d \in Deliveries : resp[d].body = "ok (no matching attempt)"
  /\ \E d \in Deliveries : resp[d].body = "ok (ignored)"

\* C14: when the mark-PAID update fails the delivery is answered 200 at once,
\* with one update sent and no record changed, so no row carries its event
\* uuid because of it; a delivery of an event uuid that no row carries, made
\* after an update for that uuid failed, is not answered as a duplicate and
\* goes on to the filter and the resolver.
C14_FailedUpdateLeavesNoTrace ==
  [][\A d \in Deliveries :
       /\ (resp'[d].body = "ok (update failed)" /\ pc[d] # "done") =>
            /\ pc[d] = "update" /\ pc'[d] = "done"
            /\ resp'[d].status = 200
            /\ signup_attempts' = signup_attempts
            /\ Cardinality({i \in DOMAIN trace'[d] : trace'[d][i].op = "update"}) = 1
       /\ (/\ pc[d] = "dedupe" /\ pc'[d] # pc[d]
           /\ loc[d].failedAtStart
           /\ RowsWithEvent(loc[d].eventUuid) = {}) =>
            /\ resp'[d].body # "ok (duplicate)"
            /\ pc'[d] = IF Ignored(req[d].payload) THEN "done" ELSE "fetch"]_vars

\* C14 happens: an update for an event failed on a record, and a delivery of
\* the same event uuid that started afterwards has marked that record PAID.
C14_Witness ==
  \E f \in failed : \E w \in writes :
    /\ f.event # NULL /\ w.event = f.event
    /\ w.d # f.d /\ w.id = f.id
    /\ w.retry /\ w.from = "PENDING"

\* the audit insert of the delivery with trace tr was refused by the store
AuditFailed(tr) == \E i \in DOMAIN tr : tr[i].op = "audit" /\ tr[i].status = 500

\* C15: in the subscription handler a refused audit insert does not stop the
\* delivery: with a subscription uuid it goes on to the provider fetch; once
\* subscription id, email and plan code are resolved it reaches the upsert,
\* which writes the row of the resolved fields (or nothing, when the store
\* refuses it too) and replaces only a row of the same subscription id; and
\* every answer after the audit insert is 200.
C15_AuditFailureNotFatal ==
  [][\A d \in Deliveries :
       /\ (pc[d] = "audit" /\ pc'[d] # "audit" /\ AuditFailed(trace'[d])) =>
            /\ webhook_events' = webhook_events
            /\ IF req[d].payload.uuid # NULL
                 THEN pc'[d] = "fetch"
                 ELSE pc'[d] = "done" /\ resp'[d].status = 200
       /\ (/\ AuditFailed(trace[d]) /\ pc[d] = "shop" /\ pc'[d] # "shop"
           /\ sloc[d].provider_subscription_id # NULL
           /\ sloc[d].email # NoEmail /\ sloc[d].plan_code # NULL) =>
            pc'[d] = "upsert"
       /\ (AuditFailed(trace[d]) /\ pc[d] = "upsert" /\ pc'[d] # "upsert") =>
            /\ resp'[d].status = 200
            /\ \/ subscriptions' = subscriptions
               \/ \E row \in subscriptions' :
                    /\ row.provider_subscription_id = sloc[d].provider_subscription_id
                    /\ row.email = sloc[d].email
                    /\ row.plan_code = sloc[d].plan_code
                    /\ row.shop_id = sloc[d].shop_id
                    /\ row.updated_at = now
                    /\ subscriptions' \ {row} =
                         {r \in subscriptions :
                            r.provider_subscription_id # row.provider_subscription_id}
       /\ (AuditFailed(trace[d]) /\ pc[d] # "done" /\ pc'[d] = "done") =>
            resp'[d].status = 200]_vars

\* C15 happens: no audit row was ever stored, and a delivery whose audit insert
\* was refused has upserted a subscription.
C15_Witness ==
  /\ webhook_events = << >>
  /\ subscriptions # {}
  /\ \E d \in Deliveries :
       /\ pc[d] = "done" /\ AuditFailed(trace[d])
       /\ \E i \in DOMAIN trace[d] : trace[d][i].op = "upsert" /\ trace[d][i].status = 0

\* the deliveries whose upsert the store applied
Upserted == {d \in Deliveries :
               \E i \in DOMAIN trace[d] : trace[d][i].op = "upsert" /\ trace[d][i].status = 0}

\* C16: the subscriptions table never holds two rows with one
\* provider_subscription_id; the table changes only in the upsert step of a
\* delivery, and then the row of that delivery's subscription id holds the
\* values the delivery resolved, stamped with the time of the upsert, while the
\* rows of the other ids stay as they were: the row of an id is that of the
\* upsert applied last.
C16_OneRowPerSubscriptionLastWins ==
  [][/\ \A r1, r2 \in subscriptions' :
          r1.provider_subscription_id = r2.provider_subscription_id => r1 = r2
     /\ subscriptions' # subscriptions =>
          \E d \in Deliveries :
            /\ pc[d] = "upsert" /\ pc'[d] = "done"
            /\ \E row \in subscriptions' :
                 /\ row.provider = "recurly"
                 /\ row.provider_subscription_id = sloc[d].provider_subscription_id
                 /\ row.account_code = sloc[d].account_code
                 /\ row.email = sloc[d].email
                 /\ row.plan_code = sloc[d].plan_code
                 /\ row.shop_id = sloc[d].shop_id
                 /\ row.status = (IF sloc[d].status # NULL THEN sloc[d].status ELSE "active")
                 /\ row.current_period_end = sloc[d].current_period_end
                 /\ row.updated_at = now
                 /\ \A r \in subscriptions' \ {row} : r \in subscriptions
                 /\ \A r \in subscriptions :
                      r.provider_subscription_id # row.provider_subscription_id
                        => r \in subscriptions']_vars

\* C16 happens: the store has applied the upserts of two deliveries, the later
\* one after the clock moved, and the table holds the one row of the later one.
C16_Witness ==
  /\ Cardinality(Upserted) = 2
  /\ Cardinality(subscriptions) = 1
  /\ \A r \in subscriptions : r.updated_at = now /\ now > 0

\* C17: the record a delivery goes to mark PAID is one its lookup read as
\* PENDING, with the email resolved from the payment and created_at not older
\* than the cutoff; the email and created_at of the target still are so when
\* the update is sent; and a record whose status becomes PAID in a step is the
\* target of the delivery that takes the step and has that delivery's email.
C17_PaidOnlyMatchedRecord ==
  [][/\ \A d \in Deliveries :
          /\ (pc[d] = "lookup" /\ pc'[d] = "update") =>
               /\ loc'[d].attempt \in Ids
               /\ loc'[d].email = loc[d].email
               /\ loc'[d].cutoff = now - WindowMs
               /\ signup_attempts[loc'[d].attempt].status = "PENDING"
               /\ signup_attempts[loc'[d].attempt].email = loc[d].email
               /\ signup_attempts[loc'[d].attempt].created_at >= loc'[d].cutoff
          /\ pc[d] = "update" =>
               /\ signup_attempts[loc[d].attempt].email = loc[d].email
               /\ signup_attempts[loc[d].attempt].created_at >= loc[d].cutoff
     /\ \A i \in Ids :
          (signup_attempts[i].status # "PAID" /\ signup_attempts'[i].status = "PAID") =>
            \E d \in Deliveries :
              /\ pc[d] = "update" /\ pc'[d] = "done"
              /\ loc[d].attempt = i
              /\ signup_attempts'[i].email = loc[d].email]_vars

\* C17 happens: a record was marked PAID while a PENDING record of another
\* email, created no later and inside the same window, stays PENDING.
C17_Witness ==
  \E w \in writes : \E j \in Ids :
    /\ signup_attempts[j].email # w.email
    /\ signup_attempts[w.id].email = w.email
    /\ signup_attempts[j].status = "PENDING"
    /\ signup_attempts[j].created_at >= w.cutoff
    /\ signup_attempts[j].created_at <= signup_attempts[w.id].created_at

\* C18: no step deletes a signup_attempts record; a record that appears has
\* status PENDING; the status of an existing record stays as it is or goes
\* from PENDING to PAID, so a PAID record stays PAID.
C18_StatusMonotonic ==
  [][/\ Len(signup_attempts') >= Len(signup_attempts)
     /\ \A i \in DOMAIN signup_attempts' :
          IF i \in DOMAIN signup_attempts
            THEN \/ signup_attempts'[i].status = signup_attempts[i].status
                 \/ /\ signup_attempts[i].status = "PENDING"
                    /\ signup_attempts'[i].status = "PAID"
            ELSE signup_attempts'[i].status = "PENDING"]_vars

\* C18 happens: a record that was already PAID has been written again by a
\* delivery and is PAID, next to a record still PENDING.
C18_Witness ==
  /\ \E w \in writes : w.from = "PAID" /\ signup_attempts[w.id].status = "PAID"
  /\ \E j \in Ids : signup_attempts[j].status = "PENDING"

\* C19: a step of the intake that changes signup_attempts answers a POST whose
\* shopId, employeeCode and email are all present, and appends one PENDING
\* record of these three fields; a POST missing one of the three is answered
\* 400 and a request that is neither POST nor GET is answered 405, and such a
\* request leaves signup_attempts as it was.
C19_IntakeInsertsOnlyCompletePost ==
  [][/\ signup_attempts' # signup_attempts =>
          /\ signupRes'.method = "POST"
          /\ signupRes'.body.shopId # NULL
          /\ signupRes'.body.employeeCode # NULL
          /\ signupRes'.body.email # NoEmail
          /\ signupRes'.status = 200
          /\ Len(signup_attempts') = Len(signup_attempts) + 1
          /\ \A i \in DOMAIN signup_attempts : signup_attempts'[i] = signup_attempts[i]
          /\ LET row == signup_attempts'[Len(signup_attempts')]
             IN /\ row.shop_id = signupRes'.body.shopId
                /\ row.employee_code = signupRes'.body.employeeCode
                /\ row.email = signupRes'.body.email
                /\ row.status = "PENDING"
     /\ (/\ signupRes'.method = "POST"
         /\ \/ signupRes'.body.shopId = NULL
            \/ signupRes'.body.employeeCode = NULL
            \/ signupRes'.body.email = NoEmail) =>
          signupRes'.status = 400 /\ signup_attempts' = signup_attempts
     /\ signupRes'.method \notin {"POST", "GET", NULL} =>
          signupRes'.status = 405 /\ signup_attempts' = signup_attempts]_vars

\* C19 happens: with a record in the store, a POST that has shopId and
\* employeeCode but no email has been answered 400.
C19_Witness ==
  /\ Len(signup_attempts) > 0
  /\ signupRes.method = "POST" /\ signupRes.status = 400
  /\ signupRes.body.shopId # NULL /\ signupRes.body.employeeCode # NULL
  /\ signupRes.body.email = NoEmail
====
